---- MODULE Spec2Model ----
\* Airtable synchronisation of the cio crate: the per-entity merge functions
\* (update_airtable_record), the outbound-shipment upsert
\* (create_or_update_in_airtable / update_in_airtable / push_to_airtable) and
\* the auth-login batch (update_users_in_airtable).
EXTENDS Integers, Sequences, FiniteSets, TLC

\* ---------------------------------------------------------------------------
\* Bounds
\* ---------------------------------------------------------------------------
\* Largest number of rows the remote table may hold.
MaxRecords == 3
\* Largest number of users one auth-login batch brings.
MaxUsers == 2

\* ---------------------------------------------------------------------------
\* Values.  Strings are strings, booleans booleans, numbers naturals, an
\* Option<T> is the empty sequence (None) or a one-element sequence (Some),
\* a Vec<String> is a sequence of strings.
\* ---------------------------------------------------------------------------
None == <<>>
Some(x) == <<x>>
\* The id of an airtable_api::Record that has none: "".to_string().
NoId == 0

ShipmentStrFields ==
    {"name", "contents", "street_1", "street_2", "city", "state", "zipcode",
     "country", "address_formatted", "email", "phone", "status", "carrier",
     "tracking_number", "tracking_link", "oxide_tracking_link",
     "tracking_status", "label_link", "shippo_id", "messages", "notes",
     "geocode_cache"}
ShipmentBoolFields == {"reprint_label", "resend_email_to_recipient", "schedule_pickup"}
ShipmentNumFields == {"cost"}
ShipmentOptFields == {"pickup_date", "shipped_time", "delivered_time", "eta"}
ShipmentTimeFields == {"created_time"}
ShipmentFields ==
    ShipmentStrFields \cup ShipmentBoolFields \cup ShipmentNumFields
        \cup ShipmentOptFields \cup ShipmentTimeFields

\* The fields Shipment::update_airtable_record guards with is_empty / is_none / == 0.0.
ShipmentGuardedFields ==
    {"status", "carrier", "tracking_number", "tracking_link", "tracking_status",
     "label_link", "pickup_date", "shipped_time", "delivered_time", "shippo_id",
     "eta", "cost", "notes"}

InboundStrFields ==
    {"tracking_number", "carrier", "tracking_link", "oxide_tracking_link",
     "tracking_status", "messages", "name", "notes"}
InboundOptFields == {"shipped_time", "delivered_time", "eta"}
InboundFields == InboundStrFields \cup InboundOptFields
InboundGuardedFields ==
    {"carrier", "tracking_number", "tracking_link", "tracking_status",
     "shipped_time", "delivered_time", "eta", "notes"}

SwagStrFields == {"name", "size", "item", "barcode"}
SwagNumFields == {"current_stock"}
SwagListFields == {"link_to_item"}
SwagFields == SwagStrFields \cup SwagNumFields \cup SwagListFields

AuthStrFields ==
    {"user_id", "name", "nickname", "username", "email", "picture", "company",
     "blog", "phone", "locale", "login_provider", "last_ip"}
AuthBoolFields == {"email_verified", "phone_verified"}
AuthNumFields == {"logins_count"}
AuthTimeFields == {"created_at", "updated_at", "last_login"}
AuthFields == AuthStrFields \cup AuthBoolFields \cup AuthNumFields \cup AuthTimeFields

AllStrFields == ShipmentStrFields \cup InboundStrFields \cup SwagStrFields \cup AuthStrFields
AllBoolFields == ShipmentBoolFields \cup AuthBoolFields
AllNumFields == ShipmentNumFields \cup SwagNumFields \cup AuthNumFields
AllOptFields == ShipmentOptFields \cup InboundOptFields
AllListFields == SwagListFields
AllTimeFields == ShipmentTimeFields \cup AuthTimeFields

\* The i-th sample value of a field; sample 0 is the zero value of the field's
\* type (Default::default()), a DateTime<Utc> has no zero value.
Val(f, i) ==
    IF f \in AllStrFields THEN (IF i = 0 THEN "" ELSE IF i = 1 THEN "X" ELSE "Y")
    ELSE IF f \in AllBoolFields THEN (i = 1)
    ELSE IF f \in AllNumFields THEN i
    ELSE IF f \in AllOptFields THEN (IF i = 0 THEN None ELSE Some(i))
    ELSE IF f \in AllListFields THEN (IF i = 0 THEN <<>> ELSE IF i = 1 THEN <<"X">> ELSE <<"Y">>)
    ELSE i + 1

Zero(f) == Val(f, 0)
IsZero(f, v) == f \notin AllTimeFields /\ v = Zero(f)

\* ---------------------------------------------------------------------------
\* The merge functions (trait UpdateAirtableRecord): self is the derived
\* record, record the fields of the existing Airtable row; the result is self
\* after the call.
\* ---------------------------------------------------------------------------
\* Mutant: eta is taken from the existing row whether or not it is set.
InboundShipment_update_airtable_record_EtaUnguarded(self, record) ==
    [self EXCEPT
        !.carrier = IF self.carrier = "" THEN record.carrier ELSE @,
        !.tracking_number = IF self.tracking_number = "" THEN record.tracking_number ELSE @,
        !.tracking_link = IF self.tracking_link = "" THEN record.tracking_link ELSE @,
        !.tracking_status = IF self.tracking_status = "" THEN record.tracking_status ELSE @,
        !.shipped_time = IF self.shipped_time = None THEN record.shipped_time ELSE @,
        !.delivered_time = IF self.delivered_time = None THEN record.delivered_time ELSE @,
        !.eta = record.eta,
        !.notes = IF self.notes = "" THEN record.notes ELSE @]

InboundShipment_update_airtable_record(self, record) ==
    [self EXCEPT
        !.carrier = IF self.carrier = "" THEN record.carrier ELSE @,
        !.tracking_number = IF self.tracking_number = "" THEN record.tracking_number ELSE @,
        !.tracking_link = IF self.tracking_link = "" THEN record.tracking_link ELSE @,
        !.tracking_status = IF self.tracking_status = "" THEN record.tracking_status ELSE @,
        !.shipped_time = IF self.shipped_time = None THEN record.shipped_time ELSE @,
        !.delivered_time = IF self.delivered_time = None THEN record.delivered_time ELSE @,
        !.eta = IF self.eta = None THEN record.eta ELSE @,
        !.notes = IF self.notes = "" THEN record.notes ELSE @]

\* Mutant: the notes of the existing row are not filled in.
Shipment_update_airtable_record_NotesDropped(self, record) ==
    [self EXCEPT
        !.geocode_cache = record.geocode_cache,
        !.status = IF self.status = "" THEN record.status ELSE @,
        !.carrier = IF self.carrier = "" THEN record.carrier ELSE @,
        !.tracking_number = IF self.tracking_number = "" THEN record.tracking_number ELSE @,
        !.tracking_link = IF self.tracking_link = "" THEN record.tracking_link ELSE @,
        !.tracking_status = IF self.tracking_status = "" THEN record.tracking_status ELSE @,
        !.label_link = IF self.label_link = "" THEN record.label_link ELSE @,
        !.pickup_date = IF self.pickup_date = None THEN record.pickup_date ELSE @,
        !.shipped_time = IF self.shipped_time = None THEN record.shipped_time ELSE @,
        !.delivered_time = IF self.delivered_time = None THEN record.delivered_time ELSE @,
        !.shippo_id = IF self.shippo_id = "" THEN record.shippo_id ELSE @,
        !.eta = IF self.eta = None THEN record.eta ELSE @,
        !.cost = IF self.cost = 0 THEN record.cost ELSE @]

\* Mutant: the status of the existing row is not filled in.
Shipment_update_airtable_record_StatusDropped(self, record) ==
    [self EXCEPT
        !.geocode_cache = record.geocode_cache,
        !.carrier = IF self.carrier = "" THEN record.carrier ELSE @,
        !.tracking_number = IF self.tracking_number = "" THEN record.tracking_number ELSE @,
        !.tracking_link = IF self.tracking_link = "" THEN record.tracking_link ELSE @,
        !.tracking_status = IF self.tracking_status = "" THEN record.tracking_status ELSE @,
        !.label_link = IF self.label_link = "" THEN record.label_link ELSE @,
        !.pickup_date = IF self.pickup_date = None THEN record.pickup_date ELSE @,
        !.shipped_time = IF self.shipped_time = None THEN record.shipped_time ELSE @,
        !.delivered_time = IF self.delivered_time = None THEN record.delivered_time ELSE @,
        !.shippo_id = IF self.shippo_id = "" THEN record.shippo_id ELSE @,
        !.eta = IF self.eta = None THEN record.eta ELSE @,
        !.cost = IF self.cost = 0 THEN record.cost ELSE @,
        !.notes = IF self.notes = "" THEN record.notes ELSE @]

Shipment_update_airtable_record(self, record) ==
    [self EXCEPT
        !.geocode_cache = record.geocode_cache,
        !.status = IF self.status = "" THEN record.status ELSE @,
        !.carrier = IF self.carrier = "" THEN record.carrier ELSE @,
        !.tracking_number = IF self.tracking_number = "" THEN record.tracking_number ELSE @,
        !.tracking_link = IF self.tracking_link = "" THEN record.tracking_link ELSE @,
        !.tracking_status = IF self.tracking_status = "" THEN record.tracking_status ELSE @,
        !.label_link = IF self.label_link = "" THEN record.label_link ELSE @,
        !.pickup_date = IF self.pickup_date = None THEN record.pickup_date ELSE @,
        !.shipped_time = IF self.shipped_time = None THEN record.shipped_time ELSE @,
        !.delivered_time = IF self.delivered_time = None THEN record.delivered_time ELSE @,
        !.shippo_id = IF self.shippo_id = "" THEN record.shippo_id ELSE @,
        !.eta = IF self.eta = None THEN record.eta ELSE @,
        !.cost = IF self.cost = 0 THEN record.cost ELSE @,
        !.notes = IF self.notes = "" THEN record.notes ELSE @]

\* Mutant: name is not cleared.
SwagInventoryItem_update_airtable_record_NameKept(self, record) ==
    [self EXCEPT
        !.link_to_item = IF record.link_to_item # <<>> THEN record.link_to_item ELSE @]

SwagInventoryItem_update_airtable_record(self, record) ==
    [self EXCEPT
        !.link_to_item = IF record.link_to_item # <<>> THEN record.link_to_item ELSE @,
        !.name = ""]

\* ---------------------------------------------------------------------------
\* State
\* ---------------------------------------------------------------------------
VARIABLES
    job,        \* which cron job this run is: "shipments", "auth_logins" ("merge": none)
    airtable,   \* the rows of the job's Airtable table, in listing order
    nextId,     \* the id Airtable gives to the next created row
    lastOp,     \* what the latest sync of one record did (history)
    upc,        \* update_users_in_airtable: "idle" or "loop"
    logins,     \* update_users_in_airtable: the BTreeMap built from the listing
    users,      \* update_users_in_airtable: the users still to be synced
    mrg,        \* the inputs and the result of one call of a merge function
    db,         \* the inbound_shipments table of the database, by (tracking_number, carrier)
    itodo,      \* refresh_inbound_shipments: the listed rows still to be visited
    ilast,      \* refresh_inbound_shipments: what the latest iteration did (history)
    sheet,      \* what the job of a batch derives its records from: the rows of
                \* the Google sheet, the users of the directory
    brun,       \* the position of the running batch
    bstat,      \* what the batches did: calls counted, the latest step (history)
    hook,       \* POST /github: the latest event and what the handler answered
    pg,         \* get_auth_logins: the directory, the loop's variables, the result
    trk,        \* one tracking answer applied to one shipment: the inputs, the result
    gs          \* get_google_sheets_shipments: the sheets, the loops' variables, the result

inboundVars == <<db, itodo, ilast>>
batchVars == <<sheet, brun, bstat>>
\* The variables of the other jobs, which the Airtable syncs leave alone.
fnVars == <<trk, gs>>
extVars == <<inboundVars, batchVars, hook, pg, fnVars>>
vars == <<job, airtable, nextId, lastOp, upc, logins, users, mrg, extVars>>

\* ---------------------------------------------------------------------------
\* The remote table (airtable_api, an external collaborator): create appends
\* a row under a fresh id, update replaces the fields of the row with the id
\* of the record sent, list returns the rows in table order.
\* ---------------------------------------------------------------------------
create_records(table, rec, id) ==
    Append(table, [id |-> id, created_time |-> Some(id), fields |-> rec.fields])

update_records(table, rec) ==
    [i \in DOMAIN table |->
        IF table[i].id = rec.id THEN [table[i] EXCEPT !.fields = rec.fields] ELSE table[i]]

list_records(table) == table

ApplyCall(table, call, id) ==
    IF call.op = "create" THEN create_records(table, call.rec, id)
    ELSE update_records(table, call.rec)

RECURSIVE ApplyCalls(_, _, _)
ApplyCalls(table, calls, id) ==
    IF calls = <<>> THEN table
    ELSE ApplyCalls(ApplyCall(table, Head(calls), id), Tail(calls), id + 1)

\* ---------------------------------------------------------------------------
\* std::collections::BTreeMap as a function from its keys to its values
\* ---------------------------------------------------------------------------
EmptyMap == [k \in {} |-> 0]

\* Mutant: the value of an existing key is kept (entry().or_insert()).
BTreeInsert_KeepFirst(map, k, v) ==
    [x \in (DOMAIN map) \cup {k} |-> IF x \in DOMAIN map THEN map[x] ELSE v]

\* BTreeMap::insert: the value of an existing key is replaced.
BTreeInsert(map, k, v) ==
    [x \in (DOMAIN map) \cup {k} |-> IF x = k THEN v ELSE map[x]]

Min(S) == CHOOSE x \in S : \A y \in S : x <= y

\* ---------------------------------------------------------------------------
\* Outbound shipments
\* ---------------------------------------------------------------------------
\* for record in result { records.insert(record.fields.created_time, record); }
RECURSIVE RecordsByCreatedTime(_, _)
RecordsByCreatedTime(result, records) ==
    IF result = <<>> THEN records
    ELSE RecordsByCreatedTime(Tail(result),
            BTreeInsert(records, Head(result).fields.created_time, Head(result)))

\* for (created_time, record) in records { if self.created_time == created_time
\* && self.email == record.fields.email { ... return; } }: the first entry, in
\* key order, that passes the test, as an Option.
FindShipmentRecord(self, records) ==
    LET hits == {t \in DOMAIN records :
                    self.created_time = t /\ self.email = records[t].fields.email}
    IN IF hits = {} THEN None ELSE Some(records[Min(hits)])

\* Mutant: the created row is queued whatever the derived status is.
push_to_airtable_Queued(self) ==
    [path |-> "create",
     self |-> self,
     existing |-> None,
     calls |-> <<[op |-> "create",
                  rec |-> [id |-> NoId, created_time |-> None,
                           fields |-> [self EXCEPT !.status = "Queued"]]]>>]

push_to_airtable(self) ==
    [path |-> "create",
     self |-> self,
     existing |-> None,
     calls |-> <<[op |-> "create",
                  rec |-> [id |-> NoId, created_time |-> None, fields |-> self]]>>]

\* Mutant: self is compared with the existing row before the merge.
update_in_airtable_CompareFirst(self, existing_record) ==
    LET merged == Shipment_update_airtable_record(self, existing_record.fields)
    IN [path |-> "update",
        self |-> merged,
        existing |-> Some(existing_record),
        calls |-> IF self = existing_record.fields THEN <<>>
                  ELSE <<[op |-> "update",
                          rec |-> [existing_record EXCEPT !.fields = merged]]>>]

\* Mutant: the update is sent without the comparison.
update_in_airtable_AlwaysUpdate(self, existing_record) ==
    LET merged == Shipment_update_airtable_record(self, existing_record.fields)
    IN [path |-> "update",
        self |-> merged,
        existing |-> Some(existing_record),
        calls |-> <<[op |-> "update",
                     rec |-> [existing_record EXCEPT !.fields = merged]]>>]

\* Mutant: the update is sent in a new record, as a create is.
update_in_airtable_NewRecord(self, existing_record) ==
    LET merged == Shipment_update_airtable_record(self, existing_record.fields)
    IN [path |-> "update",
        self |-> merged,
        existing |-> Some(existing_record),
        calls |-> IF merged = existing_record.fields THEN <<>>
                  ELSE <<[op |-> "update",
                          rec |-> [id |-> NoId, created_time |-> None, fields |-> merged]]>>]

update_in_airtable(self, existing_record) ==
    LET merged == Shipment_update_airtable_record(self, existing_record.fields)
    IN [path |-> "update",
        self |-> merged,
        existing |-> Some(existing_record),
        calls |-> IF merged = existing_record.fields THEN <<>>
                  ELSE <<[op |-> "update",
                          rec |-> [existing_record EXCEPT !.fields = merged]]>>]

create_or_update_in_airtable(self, table) ==
    LET result == list_records(table)
        records == RecordsByCreatedTime(result, EmptyMap)
        found == FindShipmentRecord(self, records)
    IN IF found # None THEN update_in_airtable(self, found[1])
       ELSE push_to_airtable(self)

\* The derived shipments the model syncs: the key (created_time, email), the
\* guarded fields at sample g, geocode_cache at sample c, the rest at sample u.
ShipmentOf(t, e, g, c, u) ==
    [f \in ShipmentFields |->
        IF f = "created_time" THEN t
        ELSE IF f = "email" THEN e
        ELSE IF f = "geocode_cache" THEN Val(f, c)
        ELSE IF f \in ShipmentGuardedFields THEN Val(f, g)
        ELSE Val(f, u)]

ShipmentKeys == {<<1, "X">>, <<1, "Y">>, <<2, "X">>}
\* Either every optional field is left at its default or every one is set.
DerivedShipments ==
    {ShipmentOf(k[1], k[2], v, 0, v) : k \in ShipmentKeys, v \in 0..1}

NoOp ==
    [kind |-> "none", derived |-> None, existing |-> None, merged |-> None,
     calls |-> <<>>, listing |-> <<>>, repeat |-> FALSE]

\* One call of Shipment::create_or_update_in_airtable on the derived shipment d.
CreateOrUpdateInAirtable(d) ==
    /\ job = "shipments"
    /\ LET r == create_or_update_in_airtable(d, airtable)
       IN /\ Len(airtable) + (IF r.path = "create" THEN 1 ELSE 0) <= MaxRecords
          /\ airtable' = ApplyCalls(airtable, r.calls, nextId)
          /\ nextId' = nextId + (IF r.path = "create" THEN 1 ELSE 0)
          /\ lastOp' = [kind |-> r.path, derived |-> Some(d), existing |-> r.existing,
                        merged |-> Some(r.self), calls |-> r.calls, listing |-> airtable,
                        repeat |-> (lastOp.kind \in {"create", "update"}
                                        /\ lastOp.derived = Some(d))]
    /\ UNCHANGED <<job, upc, logins, users, mrg, extVars>>

\* ---------------------------------------------------------------------------
\* Auth logins.  The fields of a row of the logins table are the JSON of a
\* NewAuthLogin (json!(user) / serde_json::from_value), kept here as the
\* NewAuthLogin itself.
\* ---------------------------------------------------------------------------
AuthLoginOf(uid, v) ==
    [f \in AuthFields |-> IF f = "user_id" THEN uid ELSE Val(f, v)]

AuthLogins == {AuthLoginOf(uid, v) : uid \in {"X", "Y"}, v \in 0..1}

RECURSIVE SeqsUpTo(_, _)
SeqsUpTo(S, n) ==
    IF n = 0 THEN {<<>>}
    ELSE LET shorter == SeqsUpTo(S, n - 1)
         IN shorter \cup {Append(q, x) : q \in shorter, x \in S}

\* for record in records { logins.insert(fields.user_id.to_string(), (record, fields)); }
RECURSIVE LoginsByUserId(_, _)
LoginsByUserId(records, map) ==
    IF records = <<>> THEN map
    ELSE LoginsByUserId(Tail(records),
            BTreeInsert(map, Head(records).fields.user_id,
                        [record |-> Head(records), fields |-> Head(records).fields]))

\* NewAuthLogin::push_to_airtable
NewAuthLogin_push_to_airtable(user) ==
    [path |-> "create",
     self |-> user,
     existing |-> None,
     calls |-> <<[op |-> "create",
                  rec |-> [id |-> NoId, created_time |-> None, fields |-> user]]>>]

\* The body of the loop of update_users_in_airtable for one user.
sync_user(user, map) ==
    IF user.user_id \in DOMAIN map
    THEN LET r == map[user.user_id].record
             in_airtable_fields == map[user.user_id].fields
         IN [path |-> "update",
             self |-> user,
             existing |-> Some(r),
             calls |-> IF user = in_airtable_fields THEN <<>>
                       ELSE <<[op |-> "update", rec |-> [r EXCEPT !.fields = user]]>>]
    ELSE NewAuthLogin_push_to_airtable(user)

\* update_users_in_airtable up to its loop: list the table, build the map,
\* fetch the users (us is what get_auth_logins returned).
UpdateUsersList(us) ==
    /\ job = "auth_logins"
    /\ upc = "idle"
    /\ logins' = LoginsByUserId(list_records(airtable), EmptyMap)
    /\ users' = us
    /\ upc' = IF us = <<>> THEN "idle" ELSE "loop"
    /\ lastOp' = NoOp
    /\ UNCHANGED <<job, airtable, nextId, mrg, extVars>>

\* One iteration of the loop of update_users_in_airtable.
UpdateUsersStep ==
    /\ job = "auth_logins"
    /\ upc = "loop"
    /\ LET r == sync_user(Head(users), logins)
       IN /\ Len(airtable) + (IF r.path = "create" THEN 1 ELSE 0) <= MaxRecords
          /\ airtable' = ApplyCalls(airtable, r.calls, nextId)
          /\ nextId' = nextId + (IF r.path = "create" THEN 1 ELSE 0)
          /\ lastOp' = [kind |-> r.path, derived |-> Some(Head(users)),
                        existing |-> r.existing, merged |-> Some(r.self),
                        calls |-> r.calls, listing |-> airtable, repeat |-> FALSE]
    /\ users' = Tail(users)
    /\ upc' = IF Tail(users) = <<>> THEN "idle" ELSE "loop"
    /\ UNCHANGED <<job, logins, mrg, extVars>>

\* Somebody edits a cell of the first row of the Airtable grid: the geocode
\* cache of a shipment, the company of a login.
EditedField == IF job = "shipments" THEN "geocode_cache" ELSE "company"
ManualEdit ==
    /\ job \in {"shipments", "auth_logins"}
    /\ airtable # <<>>
    /\ \E v \in {"", "X"} :
          /\ airtable[1].fields[EditedField] # v
          /\ airtable' = [airtable EXCEPT ![1].fields[EditedField] = v]
    /\ lastOp' = [NoOp EXCEPT !.kind = "edit"]
    /\ UNCHANGED <<job, nextId, upc, logins, users, mrg, extVars>>

\* ---------------------------------------------------------------------------
\* Inbound shipments
\* ---------------------------------------------------------------------------
\* Utc::now(), later than every date a carrier reports.
Now == 9

\* str::to_lowercase on the carrier names and the sheet cells of the model.
to_lowercase(str) ==
    CASE str = "UPS" -> "ups"
      [] str = "USPS" -> "usps"
      [] str = "FedEx" -> "fedex"
      [] str = "DHL" -> "dhl"
      [] str = "TRUE" -> "true"
      [] str = "FALSE" -> "false"
      [] str = "X@Y" -> "x@y"
      [] str = "Timestamp" -> "timestamp"
      [] str = "Email Address" -> "email address"
      [] str = "Sent?" -> "sent?"
      [] OTHER -> str

\* format!("{}{}", prefix, tracking_number) for the tracking numbers of the model.
format_link(prefix, number) ==
    CASE prefix = "ups" /\ number = "X" -> "https://www.ups.com/track?tracknum=X"
      [] prefix = "ups" /\ number = "Y" -> "https://www.ups.com/track?tracknum=Y"
      [] prefix = "ups" -> "https://www.ups.com/track?tracknum="
      [] prefix = "usps" /\ number = "X" -> "https://tools.usps.com/go/TrackConfirmAction_input?origTrackNum=X"
      [] prefix = "usps" /\ number = "Y" -> "https://tools.usps.com/go/TrackConfirmAction_input?origTrackNum=Y"
      [] prefix = "usps" -> "https://tools.usps.com/go/TrackConfirmAction_input?origTrackNum="
      [] prefix = "fedex" /\ number = "X" -> "https://www.fedex.com/apps/fedextrack/?tracknumbers=X"
      [] prefix = "fedex" /\ number = "Y" -> "https://www.fedex.com/apps/fedextrack/?tracknumbers=Y"
      [] prefix = "fedex" -> "https://www.fedex.com/apps/fedextrack/?tracknumbers="
      [] prefix = "dhl" /\ number = "X" -> "https://www.dhl.com/en/express/tracking.html?AWB=X"
      [] prefix = "dhl" /\ number = "Y" -> "https://www.dhl.com/en/express/tracking.html?AWB=Y"
      [] prefix = "dhl" -> "https://www.dhl.com/en/express/tracking.html?AWB="
      [] prefix = "oxide/UPS" /\ number = "X" -> "https://track.oxide.computer/UPS/X"
      [] prefix = "oxide/UPS" /\ number = "Y" -> "https://track.oxide.computer/UPS/Y"
      [] prefix = "oxide/UPS" -> "https://track.oxide.computer/UPS/"
      [] number = "X" -> "https://track.oxide.computer//X"
      [] number = "Y" -> "https://track.oxide.computer//Y"
      [] OTHER -> "https://track.oxide.computer//"

\* NewInboundShipment::oxide_tracking_link
NewInboundShipment_oxide_tracking_link(self) ==
    format_link(IF self.carrier = "UPS" THEN "oxide/UPS" ELSE "oxide/", self.tracking_number)

\* NewInboundShipment::tracking_link
NewInboundShipment_tracking_link(self) ==
    LET carrier == to_lowercase(self.carrier)
    IN IF carrier \in {"usps", "ups", "fedex", "dhl"}
       THEN [self EXCEPT !.tracking_link = format_link(carrier, self.tracking_number)]
       ELSE self

\* What the tracking API answers: Default::default() stands for a failed call
\* (unwrap_or_default).
DefaultTrackingStatus ==
    [tracking_number |-> "", eta |-> None, tracking_history |-> <<>>,
     tracking_status |-> [status |-> "", status_details |-> "", status_date |-> None]]

TrackingStatuses(number) ==
    {DefaultTrackingStatus,
     [tracking_number |-> number, eta |-> Some(5),
      tracking_history |-> <<[status |-> "UNKNOWN", status_date |-> Some(1)],
                             [status |-> "TRANSIT", status_date |-> Some(2)]>>,
      tracking_status |-> [status |-> "TRANSIT", status_details |-> "X", status_date |-> Some(3)]],
     [tracking_number |-> number, eta |-> None,
      tracking_history |-> <<[status |-> "TRANSIT", status_date |-> Some(2)],
                             [status |-> "TRANSIT", status_date |-> None]>>,
      tracking_status |-> [status |-> "DELIVERED", status_details |-> "Y", status_date |-> Some(4)]]}

\* Mutant: every dated entry of the history counts, whatever its status.
RECURSIVE shipped_time_from_history_AnyStatus(_, _)
shipped_time_from_history_AnyStatus(history, shipped) ==
    IF history = <<>> THEN shipped
    ELSE LET h == Head(history)
             current_shipped_time == IF shipped # None THEN shipped[1] ELSE Now
         IN shipped_time_from_history_AnyStatus(Tail(history),
                IF h.status_date # None /\ h.status_date[1] < current_shipped_time
                THEN h.status_date ELSE shipped)

\* for h in ts.tracking_history { ... } of expand and of create_or_get_shippo_shipment
RECURSIVE shipped_time_from_history(_, _)
shipped_time_from_history(history, shipped) ==
    IF history = <<>> THEN shipped
    ELSE LET h == Head(history)
             current_shipped_time == IF shipped # None THEN shipped[1] ELSE Now
         IN shipped_time_from_history(Tail(history),
                IF h.status = "TRANSIT" /\ h.status_date # None
                      /\ h.status_date[1] < current_shipped_time
                THEN h.status_date ELSE shipped)

\* NewInboundShipment::expand, ts being the answer of get_tracking_status
expand(self, ts) ==
    LET s1 == [self EXCEPT !.tracking_number = ts.tracking_number,
                           !.tracking_status = ts.tracking_status.status]
        s2 == NewInboundShipment_tracking_link(s1)
        s3 == [s2 EXCEPT !.eta = ts.eta,
                         !.oxide_tracking_link = NewInboundShipment_oxide_tracking_link(s2),
                         !.messages = ts.tracking_status.status_details,
                         !.shipped_time = shipped_time_from_history(ts.tracking_history, @)]
    IN IF ts.tracking_status.status = "DELIVERED"
       THEN [s3 EXCEPT !.delivered_time = ts.tracking_status.status_date]
       ELSE s3

\* NewInboundShipment::upsert_in_db: the row of the shipment's
\* (tracking_number, carrier) with the new fields; a new row has no
\* airtable_record_id.
upsert_in_db(self, table) ==
    LET key == <<self.tracking_number, self.carrier>>
    IN IF key \in DOMAIN table THEN [table[key] EXCEPT !.fields = self]
       ELSE [airtable_record_id |-> NoId, fields |-> self]

\* InboundShipment::update: the row is stored under its key.
InboundShipment_update(shipment, table) ==
    LET key == <<shipment.fields.tracking_number, shipment.fields.carrier>>
    IN [k \in (DOMAIN table) \cup {key} |-> IF k = key THEN shipment ELSE table[k]]

\* Mutant: the id of the listed row is stored whatever the database holds.
set_airtable_record_id_Always(shipment, record) ==
    [shipment EXCEPT !.airtable_record_id = record.id]

\* if shipment.airtable_record_id.is_empty() { shipment.airtable_record_id = record.id; }
set_airtable_record_id(shipment, record) ==
    IF shipment.airtable_record_id = NoId
    THEN [shipment EXCEPT !.airtable_record_id = record.id]
    ELSE shipment

\* The rows somebody entered in the inbound table.
InboundRow(carrier, number) ==
    [f \in InboundFields |->
        IF f = "carrier" THEN carrier
        ELSE IF f = "tracking_number" THEN number
        ELSE Zero(f)]

InboundRows == {InboundRow("UPS", "X"), InboundRow("UPS", "Y"), InboundRow("", "X")}

InboundTables ==
    {[i \in DOMAIN q |-> [id |-> i, created_time |-> Some(i), fields |-> q[i]]] :
        q \in SeqsUpTo(InboundRows, MaxRecords) \ {<<>>}}

NoInbound == [kind |-> "none", record |-> None, shipment |-> None, stored |-> NoId]

\* refresh_inbound_shipments up to its loop: the rows are listed.
RefreshInboundList ==
    /\ job = "inbound_shipments"
    /\ itodo = {}
    /\ itodo' = DOMAIN airtable
    /\ ilast' = NoInbound
    /\ UNCHANGED <<job, airtable, nextId, lastOp, upc, logins, users, mrg, db, batchVars, hook, pg, fnVars>>

\* One iteration of the loop of refresh_inbound_shipments, on the listed row i.
RefreshInboundStep(i) ==
    /\ job = "inbound_shipments"
    /\ i \in itodo
    /\ itodo' = itodo \ {i}
    /\ LET record == airtable[i]
       IN IF record.fields.carrier = "" \/ record.fields.tracking_number = ""
          THEN /\ ilast' = [NoInbound EXCEPT !.kind = "blank", !.record = Some(record)]
               /\ db' = db
          ELSE \E ts \in TrackingStatuses(record.fields.tracking_number) :
                  LET new_shipment == expand(record.fields, ts)
                      upserted == upsert_in_db(new_shipment, db)
                      shipment == set_airtable_record_id(upserted, record)
                  IN /\ db' = InboundShipment_update(shipment, db)
                     /\ ilast' = [kind |-> "synced", record |-> Some(record),
                                  shipment |-> Some(shipment),
                                  stored |-> upserted.airtable_record_id]
    /\ UNCHANGED <<job, airtable, nextId, lastOp, upc, logins, users, mrg, batchVars, hook, pg, fnVars>>

\* ---------------------------------------------------------------------------
\* The batches: refresh_airtable_shipments and update_users_in_airtable with
\* the failures of their remote calls.  An unwrap() of a failed call panics,
\* and the panic ends the run; fail names the call of the step that fails.
\* ---------------------------------------------------------------------------
MaxBatch == 2
MaxRuns == 2

\* Shipment::parse_from_row_with_columns: the row of a form response.
SheetShipment(t, e) ==
    [f \in ShipmentFields |->
        IF f = "created_time" THEN t
        ELSE IF f = "email" THEN e
        ELSE IF f \in {"name", "contents", "street_1", "city", "state", "zipcode",
                       "country", "phone"} THEN "X"
        ELSE Zero(f)]

\* Shipment::populate_formatted_address
populate_formatted_address(self) ==
    LET parts == <<self.street_1, self.street_2, self.city, self.state,
                   self.zipcode, self.country>>
    IN [self EXCEPT !.address_formatted =
            CASE parts = <<"", "", "", "", "", "">> -> ""
              [] parts = <<"X", "", "X", "X", "X", "X">> -> "X\nX, X X X"
              [] parts = <<"X", "X", "X", "X", "X", "X">> -> "X\nX\nX, X X X"
              [] OTHER -> "Y\nY, Y Y Y"]

\* Shipment::oxide_tracking_link
Shipment_oxide_tracking_link(self) ==
    format_link(IF self.carrier = "UPS" THEN "oxide/UPS" ELSE "oxide/", self.tracking_number)

\* What the label API answers (shippo Transaction) and the rate chosen.
Labels ==
    {[object_id |-> "X", tracking_number |-> "X", tracking_url_provider |-> "X",
      tracking_status |-> "UNKNOWN", label_url |-> "X", eta |-> Some(5),
      status |-> "SUCCESS", messages |-> ""]}

Rate == [provider |-> "UPS", amount_local |-> 1]

\* The calls a step makes that can fail.
SyncFails == {"none", "list", "write"}
ShippoFails == SyncFails \cup {"get_shipping_label", "create_shipment",
                               "create_shipping_label_from_rate", "print_label",
                               "send_email_internally"}
ShippoInputs ==
    [fail : ShippoFails, label : Labels, has_rate : BOOLEAN,
     status : TrackingStatuses("X")]

\* What a step of a batch did: the record as the step leaves it, the write
\* calls the remote table accepted, the listings fetched, the emails sent to
\* the recipient, the call that failed ("none" when none did), and whether
\* the step panicked: every one of these calls is unwrapped.  bought counts
\* the labels bought, print tells what became of the print request, internal
\* counts the emails sent to the packaging team.
Outcome(self, calls, lists, emails, failed) ==
    [self |-> self, calls |-> calls, lists |-> lists, emails |-> emails,
     failed |-> failed, panic |-> (failed # "none"),
     bought |-> 0, print |-> "none", internal |-> 0]

\* The outcome o of a step that bought a label.
Bought(o, print, internal) ==
    [o EXCEPT !.bought = 1, !.print = print, !.internal = internal]

\* Mutant: a failed listing is taken for an empty one (unwrap_or_default).
try_create_or_update_in_airtable_EmptyOnError(self, table, fail) ==
    LET r == create_or_update_in_airtable(self, IF fail = "list" THEN <<>> ELSE table)
    IN IF fail = "write" /\ r.calls # <<>> THEN Outcome(r.self, <<>>, 1, 0, "write")
       ELSE Outcome(r.self, r.calls, 1, 0, "none")

\* Mutant: the merged record is written a second time after the sync.
try_create_or_update_in_airtable_WriteTwice(self, table, fail) ==
    IF fail = "list" THEN Outcome(self, <<>>, 1, 0, "list")
    ELSE LET r == create_or_update_in_airtable(self, table)
         IN IF fail = "write" /\ r.calls # <<>> THEN Outcome(r.self, <<>>, 1, 0, "write")
            ELSE Outcome(r.self,
                         IF r.path = "update" /\ r.calls # <<>>
                         THEN r.calls \o r.calls ELSE r.calls, 1, 0, "none")

\* Shipment::create_or_update_in_airtable with its unwraps: list_records(..)
\* .unwrap(), create_records(..).unwrap(), update_records(..).unwrap().
try_create_or_update_in_airtable(self, table, fail) ==
    IF fail = "list" THEN Outcome(self, <<>>, 1, 0, "list")
    ELSE LET r == create_or_update_in_airtable(self, table)
         IN IF fail = "write" /\ r.calls # <<>> THEN Outcome(r.self, <<>>, 1, 0, "write")
            ELSE Outcome(r.self, r.calls, 1, 0, "none")

\* Mutant: RETURNED and FAILURE are not told apart.
get_shippo_shipment_ReturnedIsFailure(self, io) ==
    IF io.fail = "get_shipping_label" THEN Outcome(self, <<>>, 0, 0, io.fail)
    ELSE
    LET label == io.label
        status == io.status
        s1 == [self EXCEPT !.tracking_number = label.tracking_number,
                           !.tracking_link = label.tracking_url_provider,
                           !.tracking_status = label.tracking_status,
                           !.label_link = label.label_url,
                           !.eta = label.eta,
                           !.shippo_id = label.object_id,
                           !.messages = IF label.status # "SUCCESS" THEN label.messages ELSE @]
        s2 == [s1 EXCEPT !.oxide_tracking_link = Shipment_oxide_tracking_link(s1),
                         !.messages = IF @ = "" THEN status.tracking_status.status_details
                                      ELSE @]
        transit == status.tracking_status.status \in {"TRANSIT", "IN_TRANSIT"}
        send_email_to_recipient == transit /\ s2.status # "Shipped"
        s3 == IF transit
              THEN [s2 EXCEPT !.shipped_time = IF send_email_to_recipient
                                               THEN status.tracking_status.status_date
                                               ELSE @,
                              !.status = "Shipped"]
              ELSE s2
        s4 == IF status.tracking_status.status = "DELIVERED"
              THEN [s3 EXCEPT !.status = "Delivered",
                              !.delivered_time = status.tracking_status.status_date]
              ELSE s3
        s5 == IF status.tracking_status.status = "RETURNED"
              THEN [s4 EXCEPT !.status = "Failure"] ELSE s4
        s6 == IF status.tracking_status.status = "FAILURE"
              THEN [s5 EXCEPT !.status = "Failure"] ELSE s5
        s7 == [s6 EXCEPT !.shipped_time =
                            shipped_time_from_history(status.tracking_history, @)]
    IN Outcome(s7, <<>>, 0, IF send_email_to_recipient THEN 1 ELSE 0, "none")

\* create_or_get_shippo_shipment, the shipment has a shippo_id: the label is
\* fetched and the tracking status read.
get_shippo_shipment(self, io) ==
    IF io.fail = "get_shipping_label" THEN Outcome(self, <<>>, 0, 0, io.fail)
    ELSE
    LET label == io.label
        status == io.status
        s1 == [self EXCEPT !.tracking_number = label.tracking_number,
                           !.tracking_link = label.tracking_url_provider,
                           !.tracking_status = label.tracking_status,
                           !.label_link = label.label_url,
                           !.eta = label.eta,
                           !.shippo_id = label.object_id,
                           !.messages = IF label.status # "SUCCESS" THEN label.messages ELSE @]
        s2 == [s1 EXCEPT !.oxide_tracking_link = Shipment_oxide_tracking_link(s1),
                         !.messages = IF @ = "" THEN status.tracking_status.status_details
                                      ELSE @]
        transit == status.tracking_status.status \in {"TRANSIT", "IN_TRANSIT"}
        send_email_to_recipient == transit /\ s2.status # "Shipped"
        s3 == IF transit
              THEN [s2 EXCEPT !.shipped_time = IF send_email_to_recipient
                                               THEN status.tracking_status.status_date
                                               ELSE @,
                              !.status = "Shipped"]
              ELSE s2
        s4 == IF status.tracking_status.status = "DELIVERED"
              THEN [s3 EXCEPT !.status = "Delivered",
                              !.delivered_time = status.tracking_status.status_date]
              ELSE s3
        s5 == IF status.tracking_status.status = "RETURNED"
              THEN [s4 EXCEPT !.status = "Returned"] ELSE s4
        s6 == IF status.tracking_status.status = "FAILURE"
              THEN [s5 EXCEPT !.status = "Failure"] ELSE s5
        s7 == [s6 EXCEPT !.shipped_time =
                            shipped_time_from_history(status.tracking_history, @)]
    IN Outcome(s7, <<>>, 0, IF send_email_to_recipient THEN 1 ELSE 0, "none")

\* Mutant: the label is printed before the shipment is saved.
create_shippo_shipment_PrintFirst(self, table, io) ==
    LET label == io.label
        s1 == [self EXCEPT !.phone = IF @ = "" THEN "(510) 922-1392" ELSE @]
        s2 == [s1 EXCEPT !.carrier = Rate.provider,
                         !.cost = Rate.amount_local,
                         !.tracking_number = label.tracking_number,
                         !.tracking_link = label.tracking_url_provider,
                         !.tracking_status = label.tracking_status,
                         !.label_link = label.label_url,
                         !.eta = label.eta,
                         !.shippo_id = label.object_id,
                         !.status = IF label.status # "SUCCESS" THEN label.status
                                    ELSE "Label created",
                         !.messages = IF label.status # "SUCCESS" THEN label.messages ELSE @]
        s3 == [s2 EXCEPT !.oxide_tracking_link = Shipment_oxide_tracking_link(s2)]
        saved == try_create_or_update_in_airtable(s3, table, io.fail)
    IN IF io.fail = "create_shipment" THEN Outcome(s1, <<>>, 0, 0, io.fail)
       ELSE IF ~io.has_rate THEN Outcome(s1, <<>>, 0, 0, "none")
       ELSE IF io.fail = "create_shipping_label_from_rate" THEN Outcome(s1, <<>>, 0, 0, io.fail)
       ELSE IF io.fail = "print_label"
       THEN Bought(Outcome(s3, <<>>, 0, 0, io.fail), "rejected", 0)
       ELSE IF saved.panic THEN Bought(saved, "accepted", 0)
       ELSE IF io.fail = "send_email_internally"
       THEN Bought(Outcome(saved.self, saved.calls, saved.lists, 0, io.fail), "accepted", 0)
       ELSE Bought([saved EXCEPT !.self = [@ EXCEPT !.status = "Label printed"]],
                   "accepted", 1)

\* create_or_get_shippo_shipment, the shipment has no shippo_id: a label is
\* bought, the shipment is saved, the label is printed and the packaging
\* team is told.
create_shippo_shipment(self, table, io) ==
    LET label == io.label
        s1 == [self EXCEPT !.phone = IF @ = "" THEN "(510) 922-1392" ELSE @]
        s2 == [s1 EXCEPT !.carrier = Rate.provider,
                         !.cost = Rate.amount_local,
                         !.tracking_number = label.tracking_number,
                         !.tracking_link = label.tracking_url_provider,
                         !.tracking_status = label.tracking_status,
                         !.label_link = label.label_url,
                         !.eta = label.eta,
                         !.shippo_id = label.object_id,
                         !.status = IF label.status # "SUCCESS" THEN label.status
                                    ELSE "Label created",
                         !.messages = IF label.status # "SUCCESS" THEN label.messages ELSE @]
        s3 == [s2 EXCEPT !.oxide_tracking_link = Shipment_oxide_tracking_link(s2)]
        saved == try_create_or_update_in_airtable(s3, table, io.fail)
        printed == [saved.self EXCEPT !.status = "Label printed"]
    IN IF io.fail = "create_shipment" THEN Outcome(s1, <<>>, 0, 0, io.fail)
       ELSE IF ~io.has_rate THEN Outcome(s1, <<>>, 0, 0, "none")
       ELSE IF io.fail = "create_shipping_label_from_rate" THEN Outcome(s1, <<>>, 0, 0, io.fail)
       ELSE IF saved.panic THEN Bought(saved, "none", 0)
       ELSE IF io.fail = "print_label"
       THEN Bought(Outcome(saved.self, saved.calls, saved.lists, 0, io.fail), "rejected", 0)
       ELSE IF io.fail = "send_email_internally"
       THEN Bought(Outcome(printed, saved.calls, saved.lists, 0, io.fail), "accepted", 0)
       ELSE Bought([saved EXCEPT !.self = printed], "accepted", 1)

\* Shipment::create_or_get_shippo_shipment
create_or_get_shippo_shipment(self, table, io) ==
    LET s0 == populate_formatted_address(self)
    IN IF s0.shippo_id # "" THEN get_shippo_shipment(s0, io)
       ELSE create_shippo_shipment(s0, table, io)

\* Mutant: the map is built again from the table in every iteration.
logins_in_loop_Refreshed(map, table) == LoginsByUserId(list_records(table), EmptyMap)

\* The snapshot of the logins table as an iteration of the loop of
\* update_users_in_airtable reads it: the map built before the loop.
logins_in_loop(map, table) == map

NoStep == [step |-> "none", i |-> 0, fail |-> "none", failed |-> "none",
           calls |-> <<>>, lists |-> 0, emails |-> 0,
           bought |-> 0, print |-> "none", internal |-> 0, status |-> ""]

\* The bookkeeping of a step of a batch on the record i with the outcome o.
\* fail is the fault injected, o.failed the call it made fail, if any.
Counted(step, i, fail, o) ==
    [bstat EXCEPT !.writes[i] = @ + Len(o.calls),
                  !.lists = @ + o.lists,
                  !.emails[i] = @ + o.emails,
                  !.labels[i] = @ + o.bought,
                  !.last = [step |-> step, i |-> i, fail |-> fail, failed |-> o.failed,
                            calls |-> o.calls, lists |-> o.lists, emails |-> o.emails,
                            bought |-> o.bought, print |-> o.print,
                            internal |-> o.internal,
                            status |-> IF "status" \in DOMAIN o.self THEN o.self.status
                                       ELSE ""]]

Creates(calls) == Cardinality({c \in DOMAIN calls : calls[c].op = "create"})

\* let shipments = get_google_sheets_shipments().await; for mut shipment in shipments
BatchStart ==
    /\ job = "batch_shipments"
    /\ brun.pc \in {"idle", "panicked"}
    /\ brun.n < MaxRuns
    /\ brun' = [pc |-> "sync1", i |-> 1, self |-> Some(sheet[1]), n |-> brun.n + 1]
    /\ bstat' = [bstat EXCEPT !.writes = [i \in DOMAIN sheet |-> 0], !.lists = 0,
                              !.last = NoStep]
    /\ UNCHANGED <<job, airtable, nextId, lastOp, upc, logins, users, mrg, inboundVars, sheet, hook, pg, fnVars>>

\* shipment.create_or_update_in_airtable().await, the first of the iteration
BatchSync1(fail) ==
    /\ job = "batch_shipments"
    /\ brun.pc = "sync1"
    /\ LET o == try_create_or_update_in_airtable(brun.self[1], airtable, fail)
       IN /\ Len(airtable) + Creates(o.calls) <= MaxRecords
          /\ airtable' = ApplyCalls(airtable, o.calls, nextId)
          /\ nextId' = nextId + Creates(o.calls)
          /\ bstat' = Counted("sync1", brun.i, fail, o)
          /\ brun' = IF o.panic THEN [brun EXCEPT !.pc = "panicked", !.self = None]
                     ELSE [brun EXCEPT !.pc = "shippo", !.self = Some(o.self)]
    /\ UNCHANGED <<job, lastOp, upc, logins, users, mrg, inboundVars, sheet, hook, pg, fnVars>>

\* shipment.create_or_get_shippo_shipment().await
BatchShippo(io) ==
    /\ job = "batch_shipments"
    /\ brun.pc = "shippo"
    /\ LET o == create_or_get_shippo_shipment(brun.self[1], airtable, io)
       IN /\ Len(airtable) + Creates(o.calls) <= MaxRecords
          /\ airtable' = ApplyCalls(airtable, o.calls, nextId)
          /\ nextId' = nextId + Creates(o.calls)
          /\ bstat' = Counted("shippo", brun.i, io.fail, o)
          /\ brun' = IF o.panic THEN [brun EXCEPT !.pc = "panicked", !.self = None]
                     ELSE [brun EXCEPT !.pc = "sync2", !.self = Some(o.self)]
    /\ UNCHANGED <<job, lastOp, upc, logins, users, mrg, inboundVars, sheet, hook, pg, fnVars>>

\* shipment.create_or_update_in_airtable().await, the second of the
\* iteration, and the loop going to the next shipment.
BatchSync2(fail) ==
    /\ job = "batch_shipments"
    /\ brun.pc = "sync2"
    /\ LET o == try_create_or_update_in_airtable(brun.self[1], airtable, fail)
       IN /\ Len(airtable) + Creates(o.calls) <= MaxRecords
          /\ airtable' = ApplyCalls(airtable, o.calls, nextId)
          /\ nextId' = nextId + Creates(o.calls)
          /\ bstat' = Counted("sync2", brun.i, fail, o)
          /\ brun' = IF o.panic THEN [brun EXCEPT !.pc = "panicked", !.self = None]
                     ELSE IF brun.i < Len(sheet)
                     THEN [brun EXCEPT !.pc = "sync1", !.i = @ + 1,
                                       !.self = Some(sheet[brun.i + 1])]
                     ELSE [brun EXCEPT !.pc = "idle", !.self = None]
    /\ UNCHANGED <<job, lastOp, upc, logins, users, mrg, inboundVars, sheet, hook, pg, fnVars>>

\* update_users_in_airtable up to its loop, list_records(..).unwrap() failing
\* or not; sheet is what get_auth_logins returned.
UsersBatchList(fail) ==
    /\ job = "batch_users"
    /\ brun.pc \in {"idle", "panicked"}
    /\ brun.n < MaxRuns
    /\ logins' = IF fail = "list" THEN logins
                 ELSE LoginsByUserId(list_records(airtable), EmptyMap)
    /\ brun' = [brun EXCEPT !.pc = IF fail = "list" THEN "panicked" ELSE "loop",
                            !.i = 1, !.n = @ + 1]
    /\ bstat' = [bstat EXCEPT !.writes = [i \in DOMAIN sheet |-> 0], !.lists = 1,
                              !.last = [NoStep EXCEPT !.step = "list", !.fail = fail,
                                                      !.failed = fail,
                                                      !.lists = 1]]
    /\ UNCHANGED <<job, airtable, nextId, lastOp, upc, users, mrg, inboundVars, sheet, hook, pg, fnVars>>

\* One iteration of the loop of update_users_in_airtable, update_records(..)
\* .unwrap() failing or not.
UsersBatchStep(fail) ==
    /\ job = "batch_users"
    /\ brun.pc = "loop"
    /\ LET map == logins_in_loop(logins, airtable)
           r == sync_user(sheet[brun.i], map)
           o == IF fail = "write" /\ r.path = "update" /\ r.calls # <<>> THEN Outcome(r.self, <<>>, 0, 0, "write")
                ELSE Outcome(r.self, r.calls, 0, 0, "none")
       IN /\ Len(airtable) + Creates(o.calls) <= MaxRecords
          /\ airtable' = ApplyCalls(airtable, o.calls, nextId)
          /\ nextId' = nextId + Creates(o.calls)
          /\ logins' = map
          /\ bstat' = Counted("user", brun.i, fail, o)
          /\ brun' = IF o.panic THEN [brun EXCEPT !.pc = "panicked"]
                     ELSE IF brun.i < Len(sheet) THEN [brun EXCEPT !.i = @ + 1]
                     ELSE [brun EXCEPT !.pc = "idle"]
    /\ UNCHANGED <<job, lastOp, upc, users, mrg, inboundVars, sheet, hook, pg, fnVars>>

\* ---------------------------------------------------------------------------
\* webhooky: POST /github.  A path is the sequence of its components, the
\* last one empty when the path ends with a slash.
\* ---------------------------------------------------------------------------
MaxCommits == 2

\* str::starts_with
starts_with(file, dir) ==
    LET n == Len(dir) - (IF dir # <<>> /\ dir[Len(dir)] = "" THEN 1 ELSE 0)
    IN /\ Len(file) >= Len(dir)
       /\ SubSeq(file, 1, n) = SubSeq(dir, 1, n)

\* str::trim_start_matches: the prefix is removed as often as it is there.
RECURSIVE trim_start_matches(_, _)
trim_start_matches(str, prefix) ==
    IF prefix # <<"">> /\ starts_with(str, prefix)
    THEN trim_start_matches(SubSeq(str, Len(prefix), Len(str)), prefix)
    ELSE str

\* fn filter(files, dir)
filter(files, dir) == SelectSeq(files, LAMBDA file : starts_with(file, dir))

\* GitHubCommit::filter_files_by_path
filter_files_by_path(self, dir) ==
    [self EXCEPT !.added = filter(self.added, dir),
                 !.modified = filter(self.modified, dir),
                 !.removed = filter(self.removed, dir)]

\* Mutant: only added files count as changes.
has_changed_files_AddedOnly(self) == self.added # <<>>

\* GitHubCommit::has_changed_files
has_changed_files(self) ==
    self.added # <<>> \/ self.modified # <<>> \/ self.removed # <<>>

\* Ok(HttpResponseAccepted(msg)), with what the handler printed about the branch.
HttpResponseAccepted(msg, branch) ==
    [status |-> 202, msg |-> msg, branch |-> branch]

\* Option::unwrap of None: the handler panics, there is no response of its own.
Panicked == [status |-> 0, msg |-> <<"panic">>, branch |-> None]

\* Mutant: pushes to other branches than the default one are thrown out.
listen_github_webhooks_BranchChecked(event) ==
    IF event.action # "push"
    THEN HttpResponseAccepted(<<"Aborted, not a push event, got", event.action>>, None)
    ELSE IF event.repository = None THEN Panicked
    ELSE IF event.repository[1].name # "rfd"
    THEN HttpResponseAccepted(<<"Aborted, push event was to the repo",
                                event.repository[1].name>>, None)
    ELSE IF event.commits = <<>>
    THEN HttpResponseAccepted(<<"Aborted, push event has no commits">>, None)
    ELSE IF ~event.commits[1].distinct
    THEN HttpResponseAccepted(<<"Aborted, push event commit is not distinct",
                                event.commits[1].id>>, None)
    ELSE IF ~has_changed_files(filter_files_by_path(event.commits[1], <<"rfd", "">>))
    THEN HttpResponseAccepted(<<"Aborted, push event commit does not include any changes",
                                event.commits[1].id, <<"rfd", "">>>>, None)
    ELSE IF trim_start_matches(event.refv, <<"refs", "heads", "">>) # <<"master">>
    THEN HttpResponseAccepted(<<"Aborted, not the default branch">>, None)
    ELSE HttpResponseAccepted(<<"Updated successfully">>,
            Some(trim_start_matches(event.refv, <<"refs", "heads", "">>)))

\* listen_github_webhooks
listen_github_webhooks(event) ==
    IF event.action # "push"
    THEN HttpResponseAccepted(<<"Aborted, not a push event, got", event.action>>, None)
    ELSE IF event.repository = None THEN Panicked
    ELSE IF event.repository[1].name # "rfd"
    THEN HttpResponseAccepted(<<"Aborted, push event was to the repo",
                                event.repository[1].name>>, None)
    ELSE IF event.commits = <<>>
    THEN HttpResponseAccepted(<<"Aborted, push event has no commits">>, None)
    ELSE IF ~event.commits[1].distinct
    THEN HttpResponseAccepted(<<"Aborted, push event commit is not distinct",
                                event.commits[1].id>>, None)
    ELSE IF ~has_changed_files(filter_files_by_path(event.commits[1], <<"rfd", "">>))
    THEN HttpResponseAccepted(<<"Aborted, push event commit does not include any changes",
                                event.commits[1].id, <<"rfd", "">>>>, None)
    ELSE HttpResponseAccepted(<<"Updated successfully">>,
            Some(trim_start_matches(event.refv, <<"refs", "heads", "">>)))

\* The events of the model.
Files == {<<"rfd", "0001", "README.md">>, <<"README.md">>, <<"docs", "rfd", "x.md">>}
Changes ==
    {[added |-> <<>>, modified |-> <<>>, removed |-> <<>>]}
    \cup {[added |-> <<f>>, modified |-> <<>>, removed |-> <<>>] : f \in Files}
    \cup {[added |-> <<>>, modified |-> <<<<"rfd", "0001", "README.md">>>>, removed |-> <<>>],
           [added |-> <<>>, modified |-> <<>>, removed |-> <<<<"rfd", "0001", "README.md">>>>]}
    \cup {[added |-> <<<<"README.md">>, <<"rfd", "0001", "README.md">>>>,
           modified |-> <<>>, removed |-> <<>>]}
FirstCommits ==
    {[id |-> "c1", distinct |-> d, added |-> c.added, modified |-> c.modified,
      removed |-> c.removed] : d \in BOOLEAN, c \in Changes}
LaterCommits ==
    {[id |-> "c2", distinct |-> TRUE, added |-> <<f>>, modified |-> <<>>,
      removed |-> <<>>] : f \in {<<"rfd", "0001", "README.md">>, <<"README.md">>}}
RECURSIVE CommitLists(_)
CommitLists(n) ==
    IF n = 0 THEN {<<>>}
    ELSE IF n = 1 THEN {<<>>} \cup {<<c>> : c \in FirstCommits}
    ELSE CommitLists(n - 1)
            \cup {Append(q, c) : q \in {x \in CommitLists(n - 1) : Len(x) = n - 1},
                                 c \in LaterCommits}
Refs == {<<"refs", "heads", "master">>, <<"refs", "heads", "0042">>}
RepoNames == {"rfd", "cio"}
Events ==
    [action : {"push", "ping"},
     repository : {None} \cup {Some([name |-> n]) : n \in RepoNames},
     refv : Refs,
     commits : CommitLists(MaxCommits)]

NoRequest == [event |-> None, response |-> None]

\* One request to POST /github.
ListenGithubWebhooks(event) ==
    /\ job = "webhooky"
    /\ hook' = [event |-> Some(event), response |-> Some(listen_github_webhooks(event))]
    /\ UNCHANGED <<job, airtable, nextId, lastOp, upc, logins, users, mrg,
                   inboundVars, batchVars, pg, fnVars>>

\* ---------------------------------------------------------------------------
\* get_auth_logins: the pages of the user directory.  An email is the pair
\* of what stands before and after its @.
\* ---------------------------------------------------------------------------
MaxPages == 2

\* str::ends_with for a suffix that starts with @
ends_with(email, domain) == email[2] = domain

\* User::to_auth_login
to_auth_login(self) ==
    LET company1 == IF ends_with(self.email, "oxidecomputer.com")
                       \/ ends_with(self.email, "oxide.computer")
                    THEN "@oxidecomputer" ELSE self.company
        company2 == IF ends_with(self.email, "bench.com") THEN "@bench" ELSE company1
    IN [user_id |-> self.user_id, email |-> self.email, company |-> company2,
        login_provider |-> self.identities[1].provider]

\* The users of the directory, and what it answers to the request of a page.
DirectoryUsers ==
    {[user_id |-> "X", email |-> <<"x", "oxide.computer">>, company |-> "",
      identities |-> <<[provider |-> "google-oauth2"]>>],
     [user_id |-> "Y", email |-> <<"y", "bench.com">>, company |-> "Y",
      identities |-> <<[provider |-> "github"]>>],
     [user_id |-> "Z", email |-> <<"z", "example.com">>, company |-> "Z",
      identities |-> <<[provider |-> "github"]>>]}

PageAnswers ==
    {[status |-> 500, body |-> <<>>], [status |-> 200, body |-> <<>>]}
    \cup {[status |-> 200, body |-> <<u>>] : u \in DirectoryUsers}
    \cup {[status |-> 200, body |-> <<u, v>>] :
            u \in {x \in DirectoryUsers : x.user_id = "X"},
            v \in {x \in DirectoryUsers : x.user_id = "Y"}}

\* The answer to the request of the page i: after the pages the directory
\* has, an empty page.
PageAnswer(directory, i) ==
    IF i + 1 \in DOMAIN directory THEN directory[i + 1]
    ELSE [status |-> 200, body |-> <<>>]

\* get_auth_logins_page
get_auth_logins_page(answer) ==
    IF answer.status = 200 THEN answer.body ELSE <<>>

\* Mutant: the users are converted last to first.
converted_Reversed(us) == [k \in DOMAIN us |-> to_auth_login(us[Len(us) + 1 - k])]

\* for user in users { auth_logins.push(user.to_auth_login()); }
converted(us) == [k \in DOMAIN us |-> to_auth_login(us[k])]

PagesIdle(directory) ==
    [pc |-> "idle", directory |-> directory, i |-> 0, has_records |-> TRUE,
     users |-> <<>>, auth_logins |-> <<>>, requested |-> <<>>]

\* get_auth_logins up to its loop
GetAuthLoginsStart ==
    /\ job = "get_auth_logins"
    /\ pg.pc = "idle"
    /\ pg' = [pg EXCEPT !.pc = "loop"]
    /\ UNCHANGED <<job, airtable, nextId, lastOp, upc, logins, users, mrg,
                   inboundVars, batchVars, hook, fnVars>>

\* One iteration of while has_records { ... }
GetAuthLoginsPage ==
    /\ job = "get_auth_logins"
    /\ pg.pc = "loop"
    /\ pg.has_records
    /\ LET u == get_auth_logins_page(PageAnswer(pg.directory, pg.i))
       IN pg' = [pg EXCEPT !.has_records = (u # <<>>),
                           !.i = @ + 1,
                           !.users = @ \o u,
                           !.requested = Append(@, pg.i)]
    /\ UNCHANGED <<job, airtable, nextId, lastOp, upc, logins, users, mrg,
                   inboundVars, batchVars, hook, fnVars>>

\* get_auth_logins after its loop: the users are converted and returned.
GetAuthLoginsReturn ==
    /\ job = "get_auth_logins"
    /\ pg.pc = "loop"
    /\ ~pg.has_records
    /\ pg' = [pg EXCEPT !.pc = "returned", !.auth_logins = converted(pg.users)]
    /\ UNCHANGED <<job, airtable, nextId, lastOp, upc, logins, users, mrg,
                   inboundVars, batchVars, hook, fnVars>>

InboundIdle ==
    /\ db = EmptyMap
    /\ itodo = {}
    /\ ilast = NoInbound

BatchIdle ==
    /\ sheet = <<>>
    /\ brun = <<>>
    /\ bstat = <<>>

FnIdle ==
    /\ trk = <<>>
    /\ gs = <<>>

ExtInit ==
    /\ InboundIdle
    /\ BatchIdle
    /\ FnIdle
    /\ hook = NoRequest
    /\ pg = <<>>

Init ==
    /\ job \in {"shipments", "auth_logins", "inbound_shipments"}
    /\ IF job = "inbound_shipments"
       THEN airtable \in InboundTables /\ nextId = Len(airtable) + 1
       ELSE airtable = <<>> /\ nextId = 1
    /\ lastOp = NoOp
    /\ upc = "idle"
    /\ logins = EmptyMap
    /\ users = <<>>
    /\ mrg = <<>>
    /\ ExtInit

Next ==
    \/ \E d \in DerivedShipments : CreateOrUpdateInAirtable(d)
    \/ \E us \in SeqsUpTo(AuthLogins, MaxUsers) : UpdateUsersList(us)
    \/ UpdateUsersStep
    \/ ManualEdit
    \/ RefreshInboundList
    \/ \E i \in DOMAIN airtable : RefreshInboundStep(i)

Spec == Init /\ [][Next]_vars

\* ---------------------------------------------------------------------------
\* The merge functions on their own: one call on a pair of records that agree
\* with a base record except in one field.
\* ---------------------------------------------------------------------------
\* Largest sample index of a field value (samples 0..MaxSample).
MaxSample == 2

Entities == {"Shipment", "InboundShipment", "SwagInventoryItem"}
EntityFields(E) ==
    IF E = "Shipment" THEN ShipmentFields
    ELSE IF E = "InboundShipment" THEN InboundFields
    ELSE SwagFields

BaseRecord(E, b) == [f \in EntityFields(E) |-> Val(f, b)]

MergeInputs ==
    {[entity |-> E, field |-> f,
      derived |-> [BaseRecord(E, bd) EXCEPT ![f] = Val(f, dv)],
      existing |-> [BaseRecord(E, be) EXCEPT ![f] = Val(f, ev)],
      merged |-> None] :
        E \in Entities, f \in ShipmentFields \cup InboundFields \cup SwagFields,
        bd \in 0..1, be \in 0..1, dv \in 0..MaxSample, ev \in 0..MaxSample}

MergeInit ==
    /\ job = "merge"
    /\ airtable = <<>>
    /\ nextId = 1
    /\ lastOp = NoOp
    /\ upc = "idle"
    /\ logins = EmptyMap
    /\ users = <<>>
    /\ mrg \in {m \in MergeInputs : m.field \in EntityFields(m.entity)}
    /\ ExtInit

MergeShipment ==
    /\ mrg.entity = "Shipment" /\ mrg.merged = None
    /\ mrg' = [mrg EXCEPT !.merged = Some(Shipment_update_airtable_record(mrg.derived, mrg.existing))]
    /\ UNCHANGED <<job, airtable, nextId, lastOp, upc, logins, users, extVars>>

MergeInboundShipment ==
    /\ mrg.entity = "InboundShipment" /\ mrg.merged = None
    /\ mrg' = [mrg EXCEPT !.merged = Some(InboundShipment_update_airtable_record(mrg.derived, mrg.existing))]
    /\ UNCHANGED <<job, airtable, nextId, lastOp, upc, logins, users, extVars>>

MergeSwagInventoryItem ==
    /\ mrg.entity = "SwagInventoryItem" /\ mrg.merged = None
    /\ mrg' = [mrg EXCEPT !.merged = Some(SwagInventoryItem_update_airtable_record(mrg.derived, mrg.existing))]
    /\ UNCHANGED <<job, airtable, nextId, lastOp, upc, logins, users, extVars>>

MergeNext == MergeShipment \/ MergeInboundShipment \/ MergeSwagInventoryItem

SpecMerge == MergeInit /\ [][MergeNext]_vars

\* ---------------------------------------------------------------------------
\* The specification of the batches
\* ---------------------------------------------------------------------------
\* The i-th form response of the sheet.
BatchKey(i) == <<i, IF i % 2 = 1 THEN "X" ELSE "Y">>

Sheets(j) ==
    IF j = "batch_shipments"
    THEN {[i \in 1..n |-> SheetShipment(BatchKey(i)[1], BatchKey(i)[2])] : n \in 1..MaxBatch}
    ELSE SeqsUpTo(AuthLogins, MaxBatch) \ {<<>>}

\* The label API answering, a rate found, nothing failing.
NoFailure ==
    CHOOSE io \in ShippoInputs :
        io.fail = "none" /\ io.has_rate /\ io.status = DefaultTrackingStatus

\* The table after an iteration of refresh_airtable_shipments on the
\* shipment without a failure.
AfterIteration(table, shipment) ==
    LET o1 == try_create_or_update_in_airtable(shipment, table, "none")
        t1 == ApplyCalls(table, o1.calls, Len(table) + 1)
        o2 == create_or_get_shippo_shipment(o1.self, t1, NoFailure)
        t2 == ApplyCalls(t1, o2.calls, Len(t1) + 1)
        o3 == try_create_or_update_in_airtable(o2.self, t2, "none")
    IN ApplyCalls(t2, o3.calls, Len(t2) + 1)

\* The table after a run of refresh_airtable_shipments without a failure.
RECURSIVE AfterRun(_, _)
AfterRun(table, shipments) ==
    IF shipments = <<>> THEN table
    ELSE AfterRun(AfterIteration(table, Head(shipments)), Tail(shipments))

BatchInit ==
    /\ job \in {"batch_shipments", "batch_users"}
    /\ sheet \in Sheets(job)
    /\ airtable \in IF job = "batch_shipments" THEN {<<>>, AfterRun(<<>>, sheet)}
                    ELSE {<<>>}
    /\ nextId = Len(airtable) + 1
    /\ lastOp = NoOp
    /\ upc = "idle"
    /\ logins = EmptyMap
    /\ users = <<>>
    /\ mrg = <<>>
    /\ InboundIdle
    /\ FnIdle
    /\ hook = NoRequest
    /\ pg = <<>>
    /\ brun = [pc |-> "idle", i |-> 0, self |-> None, n |-> 0]
    /\ bstat = [writes |-> [i \in DOMAIN sheet |-> 0], lists |-> 0,
                emails |-> [i \in DOMAIN sheet |-> 0],
                labels |-> [i \in DOMAIN sheet |-> IF i \in DOMAIN airtable THEN 1 ELSE 0],
                last |-> NoStep]

BatchNext ==
    \/ BatchStart
    \/ \E fail \in SyncFails : BatchSync1(fail)
    \/ \E io \in ShippoInputs : BatchShippo(io)
    \/ \E fail \in SyncFails : BatchSync2(fail)
    \/ \E fail \in {"none", "list"} : UsersBatchList(fail)
    \/ \E fail \in {"none", "write"} : UsersBatchStep(fail)

SpecBatch == BatchInit /\ [][BatchNext]_vars

\* ---------------------------------------------------------------------------
\* The specification of the webhook server
\* ---------------------------------------------------------------------------
WebhookInit ==
    /\ job = "webhooky"
    /\ airtable = <<>>
    /\ nextId = 1
    /\ lastOp = NoOp
    /\ upc = "idle"
    /\ logins = EmptyMap
    /\ users = <<>>
    /\ mrg = <<>>
    /\ ExtInit

WebhookNext == \E event \in Events : ListenGithubWebhooks(event)

SpecWebhook == WebhookInit /\ [][WebhookNext]_vars

\* ---------------------------------------------------------------------------
\* The specification of the listing of the user directory
\* ---------------------------------------------------------------------------
PagesInit ==
    /\ job = "get_auth_logins"
    /\ airtable = <<>>
    /\ nextId = 1
    /\ lastOp = NoOp
    /\ upc = "idle"
    /\ logins = EmptyMap
    /\ users = <<>>
    /\ mrg = <<>>
    /\ InboundIdle
    /\ BatchIdle
    /\ FnIdle
    /\ hook = NoRequest
    /\ pg \in {PagesIdle(directory) : directory \in SeqsUpTo(PageAnswers, MaxPages)}

PagesNext ==
    \/ GetAuthLoginsStart
    \/ GetAuthLoginsPage
    \/ GetAuthLoginsReturn

SpecPages == PagesInit /\ [][PagesNext]_vars

\* get_auth_logins runs on: a step of it that can be taken is taken.
SpecPagesFair == SpecPages /\ WF_vars(PagesNext)

\* ---------------------------------------------------------------------------
\* The specification of the tracking answers: one answer of the carrier is
\* applied to one shipment, by NewInboundShipment::expand or by the branch of
\* create_or_get_shippo_shipment for a shipment that has a shippo_id.
\* ---------------------------------------------------------------------------
MaxHistory == 2

\* The entries of a tracking history; 10 is a date after Utc::now().
HistoryEntries ==
    {[status |-> "TRANSIT", status_date |-> Some(1)],
     [status |-> "TRANSIT", status_date |-> Some(3)],
     [status |-> "TRANSIT", status_date |-> Some(10)],
     [status |-> "TRANSIT", status_date |-> None],
     [status |-> "DELIVERED", status_date |-> Some(1)]}

CarrierStatuses ==
    {"TRANSIT", "IN_TRANSIT", "DELIVERED", "RETURNED", "FAILURE", "UNKNOWN", "PRE_TRANSIT"}

TrackingAnswers ==
    {[tracking_number |-> "X", eta |-> Some(5), tracking_history |-> h,
      tracking_status |-> [status |-> st, status_details |-> "X", status_date |-> d]] :
        h \in SeqsUpTo(HistoryEntries, MaxHistory), st \in CarrierStatuses,
        d \in {None, Some(4)}}
    \cup {DefaultTrackingStatus}

\* The shipments the answers are applied to.
TrackedInbound ==
    {[InboundRow("UPS", "X") EXCEPT !.shipped_time = t] : t \in {None, Some(2), Some(5)}}
TrackedShipments ==
    {[SheetShipment(1, "x") EXCEPT !.shippo_id = "X", !.status = st,
                                         !.shipped_time = t, !.delivered_time = d] :
        st \in {"Label printed", "Shipped"}, t \in {None, Some(2)}, d \in {None, Some(1)}}

TrackCalls ==
    {[pc |-> "call", fn |-> "expand", self |-> s, ts |-> ts, fail |-> "none", out |-> None] :
        s \in TrackedInbound, ts \in TrackingAnswers}
    \cup {[pc |-> "call", fn |-> "create_or_get_shippo_shipment", self |-> s, ts |-> ts,
           fail |-> f, out |-> None] :
        s \in TrackedShipments,
        ts \in {a \in TrackingAnswers : Len(a.tracking_history) <= 1},
        f \in {"none", "get_shipping_label"}}

\* new_shipment.expand().await
Expand ==
    /\ job = "tracking"
    /\ trk.pc = "call"
    /\ trk.fn = "expand"
    /\ trk' = [trk EXCEPT !.pc = "done", !.out = Some(expand(trk.self, trk.ts))]
    /\ UNCHANGED <<job, airtable, nextId, lastOp, upc, logins, users, mrg,
                   inboundVars, batchVars, hook, pg, gs>>

\* shipment.create_or_get_shippo_shipment().await for a shipment with a shippo_id
GetShippoShipment ==
    /\ job = "tracking"
    /\ trk.pc = "call"
    /\ trk.fn = "create_or_get_shippo_shipment"
    /\ \E label \in Labels :
        LET o == create_or_get_shippo_shipment(trk.self, <<>>,
                    [fail |-> trk.fail, label |-> label, has_rate |-> TRUE,
                     status |-> trk.ts])
        IN trk' = [trk EXCEPT !.pc = IF o.panic THEN "panicked" ELSE "done",
                              !.out = IF o.panic THEN None ELSE Some(o.self)]
    /\ UNCHANGED <<job, airtable, nextId, lastOp, upc, logins, users, mrg,
                   inboundVars, batchVars, hook, pg, gs>>

TrackInit ==
    /\ job = "tracking"
    /\ airtable = <<>>
    /\ nextId = 1
    /\ lastOp = NoOp
    /\ upc = "idle"
    /\ logins = EmptyMap
    /\ users = <<>>
    /\ mrg = <<>>
    /\ InboundIdle
    /\ BatchIdle
    /\ hook = NoRequest
    /\ pg = <<>>
    /\ gs = <<>>
    /\ trk \in TrackCalls

TrackNext == Expand \/ GetShippoShipment

SpecTrack == TrackInit /\ [][TrackNext]_vars

\* ---------------------------------------------------------------------------
\* The specification of get_google_sheets_shipments: the values of the two
\* spreadsheets are read row by row.  A row is the sequence of its cells, a
\* cell is a string; the sheets API leaves out the empty cells at the end of
\* a row.  Columns are counted from 0 as in the code.
\* ---------------------------------------------------------------------------
MaxRows == 2

\* get_shipments_spreadsheets
get_shipments_spreadsheets ==
    <<"114nnvYnUq7xuf9dw1pT90OiVpYUE6YfE_pN1wllQuCU",
      "1V2NgYMlNXxxVtp81NLd_bqGllc5aDvSK2ZRqp6n2U-Y">>

\* str::contains on the cells of the model.
contains(str, needle) == str = needle \/ <<str, needle>> \in {<<"sent?", "sent">>}

\* str::trim on the cells of the model.
trim(str) == IF str = "X@Y " THEN "X@Y" ELSE str

\* Shipment::parse_timestamp on the cells of the model.
parse_timestamp(timestamp) ==
    CASE timestamp = "1/1/2021 1:00:00" -> 1
      [] timestamp = "1/1/2021 2:00:00" -> 2
      [] timestamp = "1/1/2021 3:00:00" -> 3
      [] timestamp = "1/1/2021 4:00:00" -> 4
      [] timestamp = "1/1/2021 5:00:00" -> 5

\* row[index] of a Vec: the index is counted from 0.
Cell(row, index) == row[index + 1]

\* SwagSheetColumns::parse: the loop over the cells of the first row.
RECURSIVE parse_columns(_, _, _)
parse_columns(row, index, columns) ==
    IF index >= Len(row) THEN columns
    ELSE LET c == to_lowercase(Cell(row, index))
             c1 == IF contains(c, "timestamp") THEN [columns EXCEPT !.timestamp = index]
                   ELSE columns
             c2 == IF contains(c, "email address") THEN [c1 EXCEPT !.email = index] ELSE c1
             c3 == IF contains(c, "sent") THEN [c2 EXCEPT !.sent = index] ELSE c2
         IN parse_columns(row, index + 1, c3)

\* SwagSheetColumns::parse
SwagSheetColumns_parse(values) ==
    parse_columns(values[1], 0, [timestamp |-> 0, email |-> 0, sent |-> 0])

\* Shipment::parse_from_row_with_columns: the shipment and its sent flag
parse_from_row_with_columns(columns, row) ==
    LET sent == IF Len(row) > columns.sent
                THEN contains(to_lowercase(Cell(row, columns.sent)), "true")
                ELSE FALSE
        email == to_lowercase(trim(Cell(row, columns.email)))
    IN <<SheetShipment(parse_timestamp(Cell(row, columns.timestamp)), email), sent>>

\* The values of a sheet.
HeaderRows == {<<"Timestamp", "Email Address", "Sent?">>, <<"Timestamp", "Email Address">>}
DataRows ==
    {<<"1/1/2021 1:00:00", "x@y", "FALSE">>,
     <<"1/1/2021 2:00:00", "X@Y ", "TRUE">>,
     <<"1/1/2021 3:00:00", "z@y">>,
     <<"1/1/2021 4:00:00", "", "TRUE">>,
     <<"1/1/2021 5:00:00">>}
SheetValues(n) == {<<>>} \cup {<<h>> \o q : h \in HeaderRows, q \in SeqsUpTo(DataRows, n)}

SheetsIdle(sheets) ==
    [pc |-> "sheet", sheets |-> sheets, s |-> 1, row_index |-> 0,
     columns |-> [timestamp |-> 0, email |-> 0, sent |-> 0],
     shipments |-> <<>>, out |-> None]

\* for sheet_id in get_shipments_spreadsheets(): the values of the next sheet
\* are read and its columns parsed.
GetValues ==
    /\ job = "sheets"
    /\ gs.pc = "sheet"
    /\ gs.s <= Len(get_shipments_spreadsheets)
    /\ LET values == gs.sheets[gs.s]
       IN gs' = IF values = <<>> THEN [gs EXCEPT !.pc = "panicked"]
                ELSE [gs EXCEPT !.pc = "rows", !.row_index = 0,
                                !.columns = SwagSheetColumns_parse(values)]
    /\ UNCHANGED <<job, airtable, nextId, lastOp, upc, logins, users, mrg,
                   inboundVars, batchVars, hook, pg, trk>>

\* for (row_index, row) in values.iter().enumerate(): one row of the sheet
SheetRow ==
    /\ job = "sheets"
    /\ gs.pc = "rows"
    /\ LET values == gs.sheets[gs.s]
           row == Cell(values, gs.row_index)
           next_sheet == [gs EXCEPT !.pc = "sheet", !.s = @ + 1]
           parsed == parse_from_row_with_columns(gs.columns, row)
       IN gs' = IF gs.row_index >= Len(values) THEN next_sheet
                ELSE IF gs.row_index = 0 THEN [gs EXCEPT !.row_index = @ + 1]
                ELSE IF gs.columns.email >= Len(row) THEN [gs EXCEPT !.pc = "panicked"]
                ELSE IF Cell(row, gs.columns.email) = "" THEN next_sheet
                ELSE [gs EXCEPT !.row_index = @ + 1,
                                !.shipments = IF parsed[2] THEN @
                                              ELSE Append(@, parsed[1])]
    /\ UNCHANGED <<job, airtable, nextId, lastOp, upc, logins, users, mrg,
                   inboundVars, batchVars, hook, pg, trk>>

\* shipments
SheetsReturn ==
    /\ job = "sheets"
    /\ gs.pc = "sheet"
    /\ gs.s > Len(get_shipments_spreadsheets)
    /\ gs' = [gs EXCEPT !.pc = "returned", !.out = Some(gs.shipments)]
    /\ UNCHANGED <<job, airtable, nextId, lastOp, upc, logins, users, mrg,
                   inboundVars, batchVars, hook, pg, trk>>

SheetsInit ==
    /\ job = "sheets"
    /\ airtable = <<>>
    /\ nextId = 1
    /\ lastOp = NoOp
    /\ upc = "idle"
    /\ logins = EmptyMap
    /\ users = <<>>
    /\ mrg = <<>>
    /\ InboundIdle
    /\ BatchIdle
    /\ hook = NoRequest
    /\ pg = <<>>
    /\ trk = <<>>
    /\ gs \in {SheetsIdle(<<v1, v2>>) : v1 \in SheetValues(MaxRows), v2 \in SheetValues(1)}

SheetsNext == GetValues \/ SheetRow \/ SheetsReturn

SpecSheets == SheetsInit /\ [][SheetsNext]_vars

\* ---------------------------------------------------------------------------
\* Properties
\* ---------------------------------------------------------------------------
\* The latest step synced one record (took the create or the update path).
Synced == lastOp.kind \in {"create", "update"}
Derived == lastOp.derived[1]
Existing == lastOp.existing[1]
Merged == lastOp.merged[1]
\* The latest sync sent an update call / the record it sent.
UpdateIssued == lastOp.kind = "update" /\ lastOp.calls # <<>>
Sent == lastOp.calls[1].rec
JobFields == IF job = "shipments" THEN ShipmentFields ELSE AuthFields
\* The natural key of a record's fields.
KeyOf(fields) ==
    IF job = "shipments" THEN <<fields.created_time, fields.email>> ELSE <<fields.user_id>>
\* The positions of the listing whose row has the key of the derived record.
SameKeyRows == {i \in DOMAIN lastOp.listing : KeyOf(lastOp.listing[i].fields) = KeyOf(Derived)}
Max(S) == CHOOSE x \in S : \A y \in S : x >= y

C2_FillIfBlank ==
    (mrg # <<>> /\ mrg.merged # None /\ mrg.entity \in {"InboundShipment", "Shipment"}) =>
        \A f \in (IF mrg.entity = "Shipment" THEN ShipmentGuardedFields ELSE InboundGuardedFields) :
            mrg.merged[1][f] = IF mrg.derived[f] = Zero(f) THEN mrg.existing[f] ELSE mrg.derived[f]

C2_Witness ==
    /\ mrg # <<>> /\ mrg.merged # None /\ mrg.entity = "InboundShipment"
    /\ mrg.derived.eta = None /\ mrg.existing.eta = Some(2) /\ mrg.merged[1].eta = Some(2)
    /\ mrg.derived.notes = "X" /\ mrg.existing.notes = "" /\ mrg.merged[1].notes = "X"

\* C3 (as stated): geocode_cache of a Shipment, link_to_item and name of a
\* SwagInventoryItem are equal to the existing row's value after the merge.
C3_RemoteOwnedEqualsExisting ==
    (mrg # <<>> /\ mrg.merged # None) =>
        /\ mrg.entity = "Shipment" => mrg.merged[1].geocode_cache = mrg.existing.geocode_cache
        /\ mrg.entity = "SwagInventoryItem" =>
                /\ mrg.merged[1].link_to_item = mrg.existing.link_to_item
                /\ mrg.merged[1].name = mrg.existing.name

\* C3 (amended): after the merge geocode_cache equals the existing row's
\* value; link_to_item equals the existing row's value when that is not empty
\* and the derived value otherwise; name is the empty string.
C3_RemoteOwnedAsMerged ==
    (mrg # <<>> /\ mrg.merged # None) =>
        /\ mrg.entity = "Shipment" => mrg.merged[1].geocode_cache = mrg.existing.geocode_cache
        /\ mrg.entity = "SwagInventoryItem" =>
                /\ mrg.merged[1].link_to_item =
                        IF mrg.existing.link_to_item # <<>> THEN mrg.existing.link_to_item
                        ELSE mrg.derived.link_to_item
                /\ mrg.merged[1].name = ""

C3_Witness ==
    /\ mrg # <<>> /\ mrg.merged # None /\ mrg.entity = "Shipment"
    /\ mrg.derived.geocode_cache = "X" /\ mrg.existing.geocode_cache = ""
    /\ mrg.merged[1].geocode_cache = ""

\* C4 (as stated): after the merge the status of a shipment is the derived
\* status, also when that is empty and the existing status is not.
C4_StatusAlwaysOverwritten ==
    (lastOp.kind = "update" /\ job = "shipments") => Merged.status = Derived.status

\* C4 (amended): the status of a shipment is filled if blank: after the merge
\* it is the existing status when the derived status is empty, and the derived
\* status otherwise.
C4_StatusFilledIfBlank ==
    (lastOp.kind = "update" /\ job = "shipments") =>
        Merged.status = IF Derived.status = "" THEN Existing.fields.status ELSE Derived.status

C4_Witness ==
    /\ lastOp.kind = "update" /\ job = "shipments"
    /\ Derived.status = "" /\ Existing.fields.status = "X" /\ Merged.status = "X"

\* C5: a second create_or_update_in_airtable of the same derived shipment,
\* right after the first and with no edit of the table in between, issues no
\* create and no update.
C5_SecondSyncWritesNothing ==
    lastOp.repeat => (lastOp.calls = <<>> /\ airtable = lastOp.listing)

C5_Witness ==
    /\ lastOp.repeat /\ lastOp.kind = "update" /\ lastOp.calls = <<>>
    /\ Merged # Derived

\* C6: on the update path an update call is issued exactly when the merged
\* record differs from the fields of the existing row; otherwise nothing is
\* written and the table is unchanged.
C6_UpdateIffDifferent ==
    lastOp.kind = "update" =>
        /\ (lastOp.calls # <<>>) <=> (Merged # Existing.fields)
        /\ lastOp.calls # <<>> => (Len(lastOp.calls) = 1 /\ lastOp.calls[1].op = "update")
        /\ lastOp.calls = <<>> => airtable = lastOp.listing

C6_Witness ==
    /\ lastOp.kind = "update" /\ lastOp.calls = <<>>
    /\ Merged = Existing.fields /\ Derived # Existing.fields
    /\ Len(airtable) > 1

\* C7: on the create path exactly one create call is issued; its fields are
\* the derived record, its id is empty and it has no creation timestamp.
C7_CreateVerbatim ==
    lastOp.kind = "create" =>
        /\ lastOp.calls = <<[op |-> "create",
                             rec |-> [id |-> NoId, created_time |-> None, fields |-> Derived]]>>
        /\ Len(airtable) = Len(lastOp.listing) + 1
        /\ airtable[Len(airtable)].fields = Derived

C7_Witness ==
    /\ lastOp.kind = "create" /\ job = "shipments"
    /\ lastOp.listing # <<>>
    /\ Derived.status # ""

\* C8: every update call carries the id of the matched existing row, which is
\* not empty and is the id of a listed row with the key of the derived record.
C8_UpdateCarriesMatchedId ==
    \A c \in DOMAIN lastOp.calls :
        lastOp.calls[c].op = "update" =>
            /\ lastOp.calls[c].rec.id = Existing.id
            /\ lastOp.calls[c].rec.id # NoId
            /\ \E i \in SameKeyRows : lastOp.listing[i].id = lastOp.calls[c].rec.id

C8_Witness ==
    /\ UpdateIssued
    /\ Len(lastOp.listing) > 1
    /\ Sent.id = Existing.id /\ Sent.id = lastOp.listing[2].id

\* C9: create_or_update_in_airtable takes the update path, with a row of the
\* derived shipment's key, whenever a listed row has that key, and the create
\* path only when no listed row has it.
C9_MatcherExact ==
    (Synced /\ job = "shipments") =>
        /\ SameKeyRows # {} => (lastOp.kind = "update" /\ KeyOf(Existing.fields) = KeyOf(Derived))
        /\ lastOp.kind = "create" => SameKeyRows = {}

\* C10 (as stated): among several listed rows with the key of the derived
\* record, the row chosen as the match is the first one listed.
C10_FirstListedWins ==
    lastOp.kind = "update" => Existing.id = lastOp.listing[Min(SameKeyRows)].id

\* C10 (amended): among several listed rows with the key of the derived
\* record, the row chosen as the match is the last one listed.
C10_LastListedWins ==
    lastOp.kind = "update" =>
        (SameKeyRows # {} /\ Existing.id = lastOp.listing[Max(SameKeyRows)].id)

C10_Witness ==
    /\ lastOp.kind = "update"
    /\ Cardinality(SameKeyRows) > 1
    /\ Existing.id = lastOp.listing[Max(SameKeyRows)].id

\* C11: starting from a table with at most one row per natural key, after any
\* sequence of syncs the table holds at most one row per natural key.
C11_OneRowPerKey ==
    job \in {"shipments", "auth_logins"} =>
        \A i, j \in DOMAIN airtable :
            KeyOf(airtable[i].fields) = KeyOf(airtable[j].fields) => i = j

C17_KeyPopulated ==
    (job = "inbound_shipments" /\ ilast.kind = "synced") =>
        /\ ilast.shipment[1].fields.tracking_number # ""
        /\ ilast.shipment[1].fields.carrier # ""

\* C13: a listing call that fails is fatal to the batch: the step it fails in
\* issues no create and no update and ends the run, and nothing is written
\* until a new run starts.
C13_ListingFailureIsFatal ==
    [][/\ (bstat'.last.fail = "list" /\ bstat'.last.lists > 0) =>
            /\ bstat'.last.calls = <<>>
            /\ airtable' = airtable
            /\ brun'.pc = "panicked"
       /\ brun.pc = "panicked" =>
            /\ airtable' = airtable
            /\ brun'.n = brun.n + 1]_vars

C13_Witness ==
    /\ brun.pc = "panicked"
    /\ bstat.last.fail = "list"
    /\ bstat.last.lists > 0
    /\ bstat.last.step \in {"sync1", "shippo", "sync2"}
    /\ brun.i < Len(sheet)
    /\ brun.n = MaxRuns

\* C14: a create or update call that fails does not abort the batch: the run
\* goes on with the remaining records.
C14_WriteFailureDoesNotAbort ==
    (bstat.last.failed = "write" /\ bstat.last.i < Len(sheet)) => brun.pc # "panicked"

\* C15: within one batch, a record gets at most one write call.
C15_OneWritePerRecord ==
    job = "batch_shipments" => \A i \in DOMAIN sheet : bstat.writes[i] <= 1

\* C15 as the code has it: every call of create_or_update_in_airtable issues
\* at most one write, and a record of a batch, which is synced before the
\* label, on buying the label and after it, gets at most three.
C15_OneWritePerSync ==
    job = "batch_shipments" =>
        /\ Len(bstat.last.calls) <= 1
        /\ \A i \in DOMAIN sheet : bstat.writes[i] <= 3

C15_Witness ==
    /\ job = "batch_shipments"
    /\ \E i \in DOMAIN sheet : bstat.writes[i] = 3

\* C16: the listing is fetched at most once per batch.
C16_OneListingPerBatch ==
    bstat.lists <= 1

\* C16 as the code has it: update_users_in_airtable fetches the listing once
\* per batch and its loop leaves the map built from it alone;
\* refresh_airtable_shipments fetches it in every call of
\* create_or_update_in_airtable, up to three times per record.
C16_ListingPerSync ==
    [][/\ job = "batch_users" =>
            /\ bstat'.lists <= 1
            /\ brun.pc = "loop" => logins' = logins
       /\ job = "batch_shipments" =>
            /\ bstat'.last.step \in {"sync1", "sync2"} => bstat'.last.lists = 1
            /\ bstat'.last.lists <= 1
            /\ bstat'.lists <= 3 * Len(sheet)]_vars

C16_Witness ==
    /\ job = "batch_users"
    /\ brun.pc = "loop"
    /\ brun.i > 1
    /\ bstat.last.calls # <<>>
    /\ logins # LoginsByUserId(list_records(airtable), EmptyMap)

\* C20: over the runs of refresh_airtable_shipments the recipient of a
\* shipment gets the email that the package is on the way at most once.
C20_EmailAtMostOnce ==
    job = "batch_shipments" => \A i \in DOMAIN sheet : bstat.emails[i] <= 1

Updated(event) == listen_github_webhooks(event).msg = <<"Updated successfully">>

\* C18: the handler filters by repository name, by branch ref and by the
\* path prefix of the changed files: for an event it accepts for automation,
\* another repository name alone, another ref alone and other changed files
\* alone can each have it thrown out.
C18_FiltersByRepoBranchPath ==
    (hook.event # None /\ Updated(hook.event[1])) =>
        /\ \E n \in RepoNames :
                ~Updated([hook.event[1] EXCEPT !.repository = Some([name |-> n])])
        /\ \E r \in Refs : ~Updated([hook.event[1] EXCEPT !.refv = r])
        /\ \E c \in FirstCommits :
                /\ c.distinct = hook.event[1].commits[1].distinct
                /\ ~Updated([hook.event[1] EXCEPT !.commits[1] = c])

\* C18 as the code has it: the repository name and the changed files can
\* each have an accepted event thrown out; the ref never changes the
\* message of the answer, it is only printed.
C18_FiltersByRepoAndPath ==
    hook.event # None =>
        /\ \A r \in Refs :
                listen_github_webhooks([hook.event[1] EXCEPT !.refv = r]).msg
                    = hook.response[1].msg
        /\ Updated(hook.event[1]) =>
            /\ \E n \in RepoNames :
                    ~Updated([hook.event[1] EXCEPT !.repository = Some([name |-> n])])
            /\ \E c \in FirstCommits :
                    /\ c.distinct = hook.event[1].commits[1].distinct
                    /\ ~Updated([hook.event[1] EXCEPT !.commits[1] = c])

C18_Witness ==
    /\ hook.event # None
    /\ hook.response[1].msg = <<"Updated successfully">>
    /\ hook.event[1].refv = <<"refs", "heads", "0042">>
    /\ hook.response[1].branch = Some(<<"0042">>)

\* C19: a page request that is rejected is fatal to get_auth_logins: it does
\* not return a list when one of the pages it requested was answered with
\* another status than 200.
C19_RejectedPageIsFatal ==
    (job = "get_auth_logins" /\ pg.pc = "returned") =>
        \A i \in 0..(pg.i - 1) : PageAnswer(pg.directory, i).status = 200

\* C21: over the runs of refresh_airtable_shipments at most one label is
\* bought for a row of the sheet.
C21_OneLabelPerShipment ==
    job = "batch_shipments" => \A i \in DOMAIN sheet : bstat.labels[i] <= 1

RfdFiles(commit) ==
    {f \in {commit.added[k] : k \in DOMAIN commit.added}
            \cup {commit.modified[k] : k \in DOMAIN commit.modified}
            \cup {commit.removed[k] : k \in DOMAIN commit.removed} :
        Len(f) >= 2 /\ f[1] = "rfd"}

\* The head of the message the first failing check stands for, in the order
\* action, repository name, commits, distinct, changed files.
FirstFailingCheck(event) ==
    IF event.action # "push" THEN "Aborted, not a push event, got"
    ELSE IF event.repository = None \/ event.repository[1].name # "rfd"
    THEN "Aborted, push event was to the repo"
    ELSE IF Len(event.commits) = 0 THEN "Aborted, push event has no commits"
    ELSE IF ~event.commits[1].distinct THEN "Aborted, push event commit is not distinct"
    ELSE IF RfdFiles(event.commits[1]) = {}
    THEN "Aborted, push event commit does not include any changes"
    ELSE "Updated successfully"

C24_AlwaysAccepted ==
    hook.response # None =>
        (hook.response[1].status = 202 /\ hook.response[1].msg # <<>>)

\* C25: for a shipment that has a shippo_id, the status follows the tracking
\* status of the carrier: TRANSIT and IN_TRANSIT give Shipped, DELIVERED gives
\* Delivered and the status date as delivered_time, RETURNED gives Returned,
\* FAILURE gives Failure; any other tracking status leaves status and
\* delivered_time as they were.
C25_StatusFollowsCarrier ==
    (job = "tracking" /\ trk.pc = "done" /\ trk.fn = "create_or_get_shippo_shipment") =>
        LET st == trk.ts.tracking_status.status
            out == trk.out[1]
        IN /\ st \in {"TRANSIT", "IN_TRANSIT"} => out.status = "Shipped"
           /\ st = "DELIVERED" =>
                /\ out.status = "Delivered"
                /\ out.delivered_time = trk.ts.tracking_status.status_date
           /\ st = "RETURNED" => out.status = "Returned"
           /\ st = "FAILURE" => out.status = "Failure"
           /\ st \notin {"TRANSIT", "IN_TRANSIT", "DELIVERED", "RETURNED", "FAILURE"} =>
                /\ out.status = trk.self.status
                /\ out.delivered_time = trk.self.delivered_time

C25_Witness ==
    /\ job = "tracking"
    /\ trk.pc = "done"
    /\ trk.fn = "create_or_get_shippo_shipment"
    /\ trk.ts.tracking_status.status = "RETURNED"
    /\ trk.self.status = "Shipped"
    /\ trk.out[1].status = "Returned"

\* The dates of the entries of a history that are marked TRANSIT.
TransitDates(history) ==
    {history[k].status_date[1] :
        k \in {n \in DOMAIN history : /\ history[n].status = "TRANSIT"
                                      /\ history[n].status_date # None}}

\* C26: after expand, shipped_time is the earliest date of the TRANSIT entries
\* of the tracking history when that date is earlier than the shipped_time
\* recorded before (than now when none was); otherwise it is what it was.  A
\* recorded shipped_time never moves to a later time, and entries of another
\* status or without a date change nothing.
C26_ShippedTimeIsEarliestTransit ==
    (job = "tracking" /\ trk.pc = "done" /\ trk.fn = "expand") =>
        LET prev == trk.self.shipped_time
            history == trk.ts.tracking_history
            dates == TransitDates(history)
            current == IF prev # None THEN prev[1] ELSE Now
            out == trk.out[1].shipped_time
        IN /\ IF dates # {} /\ Min(dates) < current
              THEN out = Some(Min(dates))
              ELSE out = prev
           /\ prev # None => (out # None /\ out[1] <= prev[1])
           /\ out = expand(trk.self,
                        [trk.ts EXCEPT !.tracking_history =
                            SelectSeq(history, LAMBDA h : /\ h.status = "TRANSIT"
                                                          /\ h.status_date # None)]).shipped_time

C26_Witness ==
    /\ job = "tracking"
    /\ trk.pc = "done"
    /\ trk.fn = "expand"
    /\ trk.self.shipped_time = Some(5)
    /\ trk.ts.tracking_history = <<[status |-> "DELIVERED", status_date |-> Some(1)],
                                   [status |-> "TRANSIT", status_date |-> Some(3)]>>
    /\ trk.out[1].shipped_time = Some(3)

\* The cell of a row below the header cell named name; empty when the row
\* ends before it or the sheet has no such column.
CellBelow(header, row, name) ==
    LET at == {k \in DOMAIN header : header[k] = name}
    IN IF at = {} \/ Len(row) < Min(at) THEN "" ELSE row[Min(at)]

\* The data rows of a sheet that stand before its first row with an empty
\* email cell.
RowsBeforeEmptyEmail(values) ==
    LET empty == {k \in 2..Len(values) :
                    CellBelow(values[1], values[k], "Email Address") = ""}
        last == IF empty = {} THEN Len(values) ELSE Min(empty) - 1
    IN SubSeq(values, 2, last)

\* The shipments the claim expects of one sheet.
ExpectedOfSheet(values) ==
    LET rows == SelectSeq(RowsBeforeEmptyEmail(values),
                    LAMBDA row : to_lowercase(CellBelow(values[1], row, "Sent?")) # "true")
    IN [k \in DOMAIN rows |->
            SheetShipment(parse_timestamp(rows[k][1]),
                          to_lowercase(trim(CellBelow(values[1], rows[k], "Email Address"))))]

\* C27: for sheets that each have a header row, get_google_sheets_shipments
\* returns, sheet after sheet, the shipments of the data rows that stand
\* before the first row with an empty email cell and are not marked sent, in
\* row order; a row with an empty email cell ends the reading of its sheet
\* only.
C27_RowsBeforeEmptyEmail ==
    (job = "sheets" /\ gs.pc \in {"returned", "panicked"}
                   /\ \A k \in DOMAIN gs.sheets : gs.sheets[k] # <<>>) =>
        /\ gs.pc = "returned"
        /\ gs.out = Some(ExpectedOfSheet(gs.sheets[1]) \o ExpectedOfSheet(gs.sheets[2]))

\* The users of the pages 0 .. n - 1 of a directory, page after page.
RECURSIVE UsersOfPages(_, _)
UsersOfPages(directory, n) ==
    IF n = 0 THEN <<>>
    ELSE UsersOfPages(directory, n - 1)
            \o get_auth_logins_page(PageAnswer(directory, n - 1))

\* What C28 says of every state of get_auth_logins.
C28_PagesInOrder ==
    LET n == Len(pg.requested)
    IN /\ pg.requested = [k \in 1..n |-> k - 1]
       /\ \A k \in 1..(n - 1) :
            get_auth_logins_page(PageAnswer(pg.directory, pg.requested[k])) # <<>>
       /\ pg.pc = "returned" =>
            /\ n >= 1
            /\ get_auth_logins_page(PageAnswer(pg.directory, n - 1)) = <<>>
            /\ pg.auth_logins =
                    LET all == UsersOfPages(pg.directory, n - 1)
                    IN [k \in DOMAIN all |-> to_auth_login(all[k])]

\* C28: get_auth_logins requests the pages 0, 1, 2, ... in this order,
\* requests no page after the first one that comes back empty, returns the
\* users of the pages before it, converted, in page order, and it does
\* return when the directory ends with an empty page.
C28_PagesInOrderUntilEmpty == []C28_PagesInOrder /\ <>(pg.pc = "returned")

C28_Witness ==
    /\ job = "get_auth_logins"
    /\ pg.pc = "returned"
    /\ pg.requested = <<0, 1, 2>>
    /\ Len(pg.auth_logins) = 3
    /\ pg.auth_logins[1].user_id # pg.auth_logins[3].user_id

====
